---- MODULE Spec2Model ----
(***************************************************************************)
(* Model of obsidian-base-live-filter-plugin (src/main.ts).                *)
(*                                                                         *)
(* Text is a sequence of tokens.  A token is a piece of text that is only  *)
(* ever matched whole: a single character, or one of the literal strings   *)
(* of the document protocol.  Three backticks are the token "<bt3>": the   *)
(* fence open (three backticks, then base) is the two tokens "<bt3>"       *)
(* "base" and the fence close (a newline, then three backticks) is the two *)
(* tokens "\n" "<bt3>", so that a fence open at the start of a line        *)
(* contains a fence close, as it does in the source.                       *)
(* Offsets are 0-based token offsets, as the code's offsets are 0-based    *)
(* code-unit offsets.                                                      *)
(***************************************************************************)
EXTENDS Integers, Sequences, FiniteSets, TLC

(***************************************************************************)
(* String primitives of the host language                                  *)
(***************************************************************************)
Min(S) == CHOOSE x \in S : \A y \in S : x <= y

Clamp(i, n) == IF i < 0 THEN 0 ELSE IF i > n THEN n ELSE i

\* text.slice(a, b): both ends clamped to [0, length], empty when a >= b
Slice(text, a, b) == SubSeq(text, Clamp(a, Len(text)) + 1, Clamp(b, Len(text)))

\* text.slice(a)
SliceFrom(text, a) == Slice(text, a, Len(text))

\* text.startsWith(sub, i) with a 0-based position i
StartsWithAt(text, sub, i) ==
  /\ i >= 0
  /\ i + Len(sub) <= Len(text)
  /\ \A j \in 1..Len(sub) : text[i + j] = sub[j]

\* text.indexOf(sub, from): the least 0-based position >= from, or -1
IndexOf(text, sub, from) ==
  LET cands == {i \in from..(Len(text) - Len(sub)) : StartsWithAt(text, sub, i)}
  IN  IF cands = {} THEN -1 ELSE Min(cands)

\* text.endsWith(sub)
EndsWith(text, sub) ==
  Len(sub) <= Len(text) /\ StartsWithAt(text, sub, Len(text) - Len(sub))

RECURSIVE Join(_, _)
\* parts.join(sep)
Join(parts, sep) ==
  IF Len(parts) = 0 THEN <<>>
  ELSE IF Len(parts) = 1 THEN parts[1]
  ELSE parts[1] \o sep \o Join(Tail(parts), sep)

(***************************************************************************)
(* Base embedded block management                                          *)
(***************************************************************************)
NL == "\n"

BT3 == "<bt3>"

FENCE_START == <<BT3, "base">>

FENCE_CLOSE == <<NL, BT3>>

BEGIN_MARK == <<"# BEGIN FILTERS (managed by obsidian-base-live-filter-plugin)">>

END_MARK == <<"# END FILTERS">>

NoInfo == [start |-> -1, end |-> -1, filtersStart |-> -1, filtersEnd |-> -1]

findBaseBlock(text) ==
  LET fenceIdx == IndexOf(text, FENCE_START, 0)
      fenceEnd == IndexOf(text, FENCE_CLOSE, fenceIdx + Len(FENCE_START))
      beginIdx == IndexOf(text, BEGIN_MARK, fenceIdx)
      endIdx   == IndexOf(text, END_MARK, fenceIdx)
  IN  IF fenceIdx < 0 THEN NoInfo
      ELSE IF fenceEnd < 0 THEN NoInfo
      ELSE IF beginIdx < 0 \/ endIdx < 0 \/ endIdx < beginIdx THEN NoInfo
      ELSE [start |-> fenceIdx, end |-> fenceEnd + Len(FENCE_CLOSE),
            filtersStart |-> beginIdx, filtersEnd |-> endIdx + Len(END_MARK)]

TemplateFilters == <<"filters:", NL, "  - contains(file.tags, \"\")">>

ManualNote == <<"# ---- Manual edits below are OK (column definitions, view settings, etc.) ----">>

Template ==
  Join(<< <<>>, FENCE_START, BEGIN_MARK, TemplateFilters, END_MARK,
          ManualNote, <<BT3>>, <<>> >>, <<NL>>)

\* findOrInsertBaseBlock, the text it writes when no block is found
InsertedText(text) ==
  text \o (IF EndsWith(text, <<NL>>) THEN <<>> ELSE <<NL>>) \o Template

\* findOrInsertBaseBlock: the text it leaves in the note and the block it returns
findOrInsertBaseBlock(text) ==
  IF findBaseBlock(text) # NoInfo
  THEN [text |-> text, info |-> findBaseBlock(text)]
  ELSE [text |-> InsertedText(text), info |-> findBaseBlock(InsertedText(text))]

Replacement(newFilters) == BEGIN_MARK \o <<NL>> \o newFilters \o <<NL>> \o END_MARK

\* Mutant: the splice is made at the offsets of the earlier read
ReplaceTarget_Stale(text, info) == info

\* Mutant: when no block is found the new region goes to the end of the text
ReplaceTarget_Append(text, info) ==
  IF findBaseBlock(text) # NoInfo THEN findBaseBlock(text)
  ELSE [info EXCEPT !.filtersStart = Len(text), !.filtersEnd = Len(text)]

\* replaceFiltersInBaseBlock: the region the splice is made at
ReplaceTarget(text, info) ==
  LET latest == findBaseBlock(text)
  IN  IF latest # NoInfo THEN latest ELSE info

\* Mutant: the text after the region is lost
ReplacedText_NoSuffix(text, info, newFilters) ==
  Slice(text, 0, findBaseBlock(text).filtersStart) \o Replacement(newFilters)

\* replaceFiltersInBaseBlock: the text handed to vault.modify, given the text read
ReplacedText(text, info, newFilters) ==
  LET target == ReplaceTarget(text, info)
      before == Slice(text, 0, target.filtersStart)
      after  == SliceFrom(text, target.filtersEnd)
  IN  before \o Replacement(newFilters) \o after

(***************************************************************************)
(* Characters.  The model's texts are made of these characters and of the  *)
(* protocol tokens; Code is the UTF-16 code unit, which is what the host's *)
(* default sort and its URI encoding go by.                                *)
(***************************************************************************)
Code(c) ==
  CASE c = NL   -> 10
    [] c = " "  -> 32
    [] c = "\"" -> 34
    [] c = "#"  -> 35
    [] c = "%"  -> 37
    [] c = "0"  -> 48
    [] c = "1"  -> 49
    [] c = "2"  -> 50
    [] c = "3"  -> 51
    [] c = "4"  -> 52
    [] c = "5"  -> 53
    [] c = "6"  -> 54
    [] c = "7"  -> 55
    [] c = "8"  -> 56
    [] c = "9"  -> 57
    [] c = "A"  -> 65
    [] c = "B"  -> 66
    [] c = "\\" -> 92
    [] c = "a"  -> 97
    [] c = "b"  -> 98
    [] c = "c"  -> 99
    [] c = "d"  -> 100
    [] c = "e"  -> 101
    [] c = "g"  -> 103
    [] c = "j"  -> 106
    [] c = "n"  -> 110
    [] c = "o"  -> 111
    [] c = "p"  -> 112
    [] c = "r"  -> 114
    [] c = "t"  -> 116
    [] c = "u"  -> 117
    [] OTHER    -> 0

ModelChars ==
  {NL, " ", "\"", "#", "%", "\\", "a", "b", "c", "d", "A", "B",
   "e", "g", "j", "n", "o", "p", "r", "t", "u",
   "0", "1", "2", "3", "4", "5", "6", "7", "8", "9"}

Digits == <<"0", "1", "2", "3", "4", "5", "6", "7", "8", "9">>

HexDigits == Digits \o <<"A", "B", "C", "D", "E", "F">>

IsDigit(c) == \E i \in 1..Len(Digits) : Digits[i] = c

DigitValue(c) == (CHOOSE i \in 1..Len(Digits) : Digits[i] = c) - 1

\* \s of the regular expressions and of trim(), within the model's characters
IsSpace(c) == c = " " \/ c = NL

\* String.prototype.toLowerCase, character by character
LowerChar(c) == IF c = "A" THEN "a" ELSE IF c = "B" THEN "b" ELSE c

ToLower(s) == [i \in 1..Len(s) |-> LowerChar(s[i])]

RECURSIVE TrimStart(_)
TrimStart(s) == IF Len(s) > 0 /\ IsSpace(s[1]) THEN TrimStart(Tail(s)) ELSE s

RECURSIVE TrimEnd(_)
TrimEnd(s) ==
  IF Len(s) > 0 /\ IsSpace(s[Len(s)]) THEN TrimEnd(SubSeq(s, 1, Len(s) - 1)) ELSE s

\* s.trim()
Trim(s) == TrimEnd(TrimStart(s))

RECURSIVE SplitWs(_)
\* s.split(/\s+/).filter(Boolean): the maximal runs of non-space characters
SplitWs(s) ==
  LET t == TrimStart(s)
      stops == {i \in 1..Len(t) : IsSpace(t[i])}
      n == IF stops = {} THEN Len(t) ELSE Min(stops) - 1
  IN  IF Len(t) = 0 THEN <<>>
      ELSE <<SubSeq(t, 1, n)>> \o SplitWs(SubSeq(t, n + 1, Len(t)))

RECURSIVE ToDigits(_)
\* String(n) for an integer n >= 0
ToDigits(n) ==
  IF n < 10 THEN <<Digits[n + 1]>> ELSE ToDigits(n \div 10) \o <<Digits[(n % 10) + 1]>>

RECURSIVE FromDigits(_)
\* parseInt(ds, 10) for a non-empty run of digits
FromDigits(ds) ==
  IF Len(ds) = 1 THEN DigitValue(ds[1])
  ELSE 10 * FromDigits(SubSeq(ds, 1, Len(ds) - 1)) + DigitValue(ds[Len(ds)])

(***************************************************************************)
(* Encode/decode state                                                     *)
(***************************************************************************)
\* The characters encodeURIComponent leaves as they are, among the model's
Unreserved(c) ==
  \/ IsDigit(c)
  \/ c \in {"a", "b", "c", "d", "A", "B", "e", "g", "j", "n", "o", "p", "r", "t", "u"}

PercentEscape(c) ==
  <<"%", HexDigits[(Code(c) \div 16) + 1], HexDigits[(Code(c) % 16) + 1]>>

EncodeChar(c) == IF Unreserved(c) THEN <<c>> ELSE PercentEscape(c)

RECURSIVE encodeState(_)
encodeState(s) ==
  IF Len(s) = 0 THEN <<>> ELSE EncodeChar(s[1]) \o encodeState(Tail(s))

\* The character a %XX escape stands for; "" when XX is no code of the model
EscapedChar(h1, h2) ==
  LET hits == {c \in ModelChars : PercentEscape(c) = <<"%", h1, h2>>}
  IN  IF hits = {} THEN "" ELSE CHOOSE c \in hits : TRUE

IsHex(c) == \E i \in 1..Len(HexDigits) : HexDigits[i] = c

\* Whether decodeURIComponent throws: a % that two hex digits do not follow
Malformed(s) ==
  \E i \in 1..Len(s) :
    /\ s[i] = "%"
    /\ ~(i + 2 <= Len(s) /\ IsHex(s[i + 1]) /\ IsHex(s[i + 2]))

RECURSIVE DecodeURI(_)
DecodeURI(s) ==
  IF Len(s) = 0 THEN <<>>
  ELSE IF s[1] = "%"
       THEN <<EscapedChar(s[2], s[3])>> \o DecodeURI(SubSeq(s, 4, Len(s)))
       ELSE <<s[1]>> \o DecodeURI(Tail(s))

decodeState(s) == IF Malformed(s) THEN s ELSE DecodeURI(s)

(***************************************************************************)
(* Matchers.  A tag is a sequence of characters, all a sequence of tags.   *)
(***************************************************************************)
\* query.replace(/^#/, "")
StripHash(q) == IF Len(q) > 0 /\ q[1] = "#" THEN Tail(q) ELSE q

\* Mutant: the tag is compared as it is written
IsPrefix_CaseSensitive(t, p) == StartsWithAt(t, p, 0)

IsPrefix(t, p) == StartsWithAt(ToLower(t), p, 0)

IsSuffix(t, p) == EndsWith(ToLower(t), p)

IsSubstring(t, p) == IndexOf(ToLower(t), p, 0) >= 0

\* the test of the matcher of that kind
Matches(kind, t, p) ==
  CASE kind = "prefix" -> IsPrefix(t, p)
    [] kind = "suffix" -> IsSuffix(t, p)
    [] OTHER -> IsSubstring(t, p)

RECURSIVE Filter(_, _, _)
\* all.filter(t => Matches(kind, t, p))
Filter(all, kind, p) ==
  IF Len(all) = 0 THEN <<>>
  ELSE (IF Matches(kind, all[1], p) THEN <<all[1]>> ELSE <<>>) \o Filter(Tail(all), kind, p)

prefixMatch(all, prefix, limit) ==
  LET p == ToLower(StripHash(prefix))
  IN  IF Len(p) = 0 THEN <<>> ELSE Slice(Filter(all, "prefix", p), 0, limit)

suffixMatch(all, suffix, limit) ==
  LET p == ToLower(StripHash(suffix))
  IN  IF Len(p) = 0 THEN <<>> ELSE Slice(Filter(all, "suffix", p), 0, limit)

substringMatch(all, part, limit) ==
  LET p == ToLower(StripHash(part))
  IN  IF Len(p) = 0 THEN <<>> ELSE Slice(Filter(all, "substring", p), 0, limit)

Has(seq, x) == \E i \in 1..Len(seq) : seq[i] = x

\* for (const t of tier) { if (!seen.has(t)) { seen.add(t); merged.push(t); } }
\* seen holds what merged holds: a tag of the tier is pushed where it is
\* neither in merged nor earlier in the tier
PushUnseen(merged, tier) ==
  LET pushed == {i \in 1..Len(tier) :
                   ~Has(merged, tier[i]) /\ \A j \in 1..(i - 1) : tier[j] # tier[i]}
      at(k) == CHOOSE i \in pushed : Cardinality({j \in pushed : j <= i}) = k
  IN  merged \o [k \in 1..Cardinality(pushed) |-> tier[at(k)]]

(***************************************************************************)
(* Generate Base filters                                                   *)
(***************************************************************************)
FilterMatchLimit == 200

FilterClauseCap == 60

RECURSIVE escapeQuote(_)
escapeQuote(s) ==
  IF Len(s) = 0 THEN <<>>
  ELSE (IF s[1] = "\"" THEN <<"\\", "\"">> ELSE <<s[1]>>) \o escapeQuote(Tail(s))

Quoted(s) == <<"\"">> \o escapeQuote(s) \o <<"\"">>

RECURSIVE QuotedAll(_)
QuotedAll(ts) == IF Len(ts) = 0 THEN <<>> ELSE <<Quoted(ts[1])>> \o QuotedAll(Tail(ts))

\* Mutant: only the prefix tier is merged
MergedFor_PrefixOnly(part, allTags, modes) ==
  LET base == IF Len(part) > 0 /\ part[1] = "#" THEN Trim(Tail(part)) ELSE part
  IN  IF modes.enablePrefix THEN prefixMatch(allTags, base, FilterMatchLimit) ELSE <<>>

\* buildFiltersFromInput, the tags merged for one whitespace-separated part
MergedFor(part, allTags, modes) ==
  LET base == IF Len(part) > 0 /\ part[1] = "#" THEN Trim(Tail(part)) ELSE part
      pref == IF modes.enablePrefix THEN prefixMatch(allTags, base, FilterMatchLimit) ELSE <<>>
      suff == IF modes.enableSuffix THEN suffixMatch(allTags, base, FilterMatchLimit) ELSE <<>>
      subs == IF modes.enableSubstring THEN substringMatch(allTags, base, FilterMatchLimit) ELSE <<>>
  IN  PushUnseen(PushUnseen(PushUnseen(<<>>, pref), suff), subs)

\* buildFiltersFromInput, the clause line of one part
ClauseLine(part, allTags, modes) ==
  LET base == IF Len(part) > 0 /\ part[1] = "#" THEN Trim(Tail(part)) ELSE part
      list == (IF Len(base) > 0 THEN <<Quoted(base)>> ELSE <<>>)
              \o QuotedAll(Slice(MergedFor(part, allTags, modes), 0, FilterClauseCap))
  IN  <<"    - file.tags.containsAny([">> \o Join(list, <<",", " ">>) \o <<"])">>

RECURSIVE ClauseLines(_, _, _)
ClauseLines(parts, allTags, modes) ==
  IF Len(parts) = 0 THEN <<>>
  ELSE <<ClauseLine(parts[1], allTags, modes)>> \o ClauseLines(Tail(parts), allTags, modes)

InputLine(input) == <<"#", " ", "INPUT:", " ">> \o encodeState(input)

CaretLine(caret) == <<"#", " ", "CARET:", " ">> \o ToDigits(caret)

\* The caret handed in is always a number (selectionStart ?? val.length)
buildFiltersFromInput(input, allTags, caret, modes) ==
  IF Len(Trim(input)) = 0
  THEN Join(<< <<"filters:">>, InputLine(input), CaretLine(caret) >>, <<NL>>)
  ELSE Join(<< <<"filters:">>, <<"  and:">> >>
            \o ClauseLines(SplitWs(Trim(input)), allTags, modes)
            \o << InputLine(input), CaretLine(caret) >>, <<NL>>)

(***************************************************************************)
(* extractSavedState                                                       *)
(***************************************************************************)
\* ^ under the m flag: the start of the text, or right after a line break
LineStart(seg, i) == i = 0 \/ (i > 0 /\ i <= Len(seg) /\ seg[i] = NL)

\* The 0-based position after the maximal run of \s from position i
RECURSIVE SkipSpace(_, _)
SkipSpace(seg, i) ==
  IF i < Len(seg) /\ IsSpace(seg[i + 1]) THEN SkipSpace(seg, i + 1) ELSE i

\* The 0-based end of the line that position i is in
RECURSIVE LineEnd(_, _)
LineEnd(seg, i) == IF i < Len(seg) /\ seg[i + 1] # NL THEN LineEnd(seg, i + 1) ELSE i

\* The 0-based position after the maximal run of digits from position i
RECURSIVE SkipDigits(_, _)
SkipDigits(seg, i) ==
  IF i < Len(seg) /\ IsDigit(seg[i + 1]) THEN SkipDigits(seg, i + 1) ELSE i

\* The position after "#", \s*, label when these stand at line start i, else -1
AfterLabel(seg, i, label) ==
  IF LineStart(seg, i) /\ i < Len(seg) /\ seg[i + 1] = "#"
  THEN LET j == SkipSpace(seg, i + 1)
       IN  IF j < Len(seg) /\ seg[j + 1] = label THEN j + 1 ELSE -1
  ELSE -1

\* /^#\s*INPUT:\s*(.+)$/m at line start i: the group's [from, to), or <<-1, -1>>.
\* \s* is greedy and gives characters back: the group starts at the last
\* position k, within the run of \s after the label, whose character is not a
\* line break, and runs to the end of that line.
InputGroupAt(seg, i) ==
  LET a == AfterLabel(seg, i, "INPUT:")
      z == SkipSpace(seg, a)
      ks == {k \in a..z : k < Len(seg) /\ seg[k + 1] # NL}
      k == CHOOSE x \in ks : \A y \in ks : y <= x
  IN  IF a < 0 \/ ks = {} THEN <<-1, -1>> ELSE <<k, LineEnd(seg, k)>>

\* /^#\s*CARET:\s*(\d+)$/m at line start i: the group's [from, to), or <<-1, -1>>
CaretGroupAt(seg, i) ==
  LET a == AfterLabel(seg, i, "CARET:")
      z == SkipSpace(seg, a)
      e == SkipDigits(seg, z)
  IN  IF a < 0 \/ e = z \/ ~(e = Len(seg) \/ seg[e + 1] = NL) THEN <<-1, -1>>
      ELSE <<z, e>>

\* segment.match(re): the group of the leftmost match, or <<-1, -1>> for null
GroupAt(label, seg, i) ==
  IF label = "INPUT:" THEN InputGroupAt(seg, i) ELSE CaretGroupAt(seg, i)

FirstGroup(seg, label) ==
  LET hits == {i \in 0..Len(seg) : GroupAt(label, seg, i)[1] >= 0}
  IN  IF hits = {} THEN <<-1, -1>> ELSE GroupAt(label, seg, Min(hits))

NoState == [input |-> <<>>, caret |-> -1]

extractSavedState(text) ==
  LET info == findBaseBlock(text)
      segment == Slice(text, info.filtersStart, info.filtersEnd)
      mInput == FirstGroup(segment, "INPUT:")
      mCaret == FirstGroup(segment, "CARET:")
      input == IF mInput[1] >= 0
               THEN decodeState(Trim(Slice(segment, mInput[1], mInput[2])))
               ELSE <<>>
      caret == IF mCaret[1] >= 0
               THEN FromDigits(Slice(segment, mCaret[1], mCaret[2]))
               ELSE Len(input)
  IN  IF info = NoInfo THEN NoState
      ELSE IF mInput[1] < 0 /\ mCaret[1] < 0 THEN NoState
      ELSE [input |-> input, caret |-> caret]

(***************************************************************************)
(* Tag collection                                                          *)
(***************************************************************************)
RECURSIVE SeqLess(_, _)
\* a < b in the host's default sort: by code unit, a proper prefix first
SeqLess(a, b) ==
  IF Len(b) = 0 THEN FALSE
  ELSE IF Len(a) = 0 THEN TRUE
  ELSE IF a[1] # b[1] THEN Code(a[1]) < Code(b[1])
  ELSE SeqLess(Tail(a), Tail(b))

RECURSIVE SortedSeq(_)
\* Array.from(set).sort()
SortedSeq(S) ==
  IF S = {} THEN <<>>
  ELSE LET m == CHOOSE x \in S : \A y \in S \ {x} : SeqLess(x, y)
       IN  <<m>> \o SortedSeq(S \ {m})

\* collectAllTags over the tags the metadata cache reports, raw
collectAllTags(raw) == SortedSeq({StripHash(raw[i]) : i \in 1..Len(raw)})

(***************************************************************************)
(* Bounds and the inputs the environment draws from                        *)
(***************************************************************************)
\* The number of environment events (edits, composition, picks, external
\* edits, metadata changes, setting changes, rejected writes) in a behaviour
MaxEvents == 2

\* Delays are counted in units of the clock's tick.  The loaded setting may
\* hold any value >= 0; the slider offers the values of choices.
LoadedDelays == {1}

SliderChoices == {1, 2}

\* What the user may type: the input's value and the caret after typing
EditInputs ==
  { [value |-> <<"a">>, caret |-> 1],
    [value |-> <<"#", "a", "b">>, caret |-> 3],
    [value |-> <<>>, caret |-> 0] }

\* The raw tags of the vault as the plugin loads, and after a metadata change
InitTags == << <<"a", "b">>, <<"#", "b">> >>

TagSets == { InitTags, << <<"a", "b">>, <<"a", "B">>, <<"a", "b">> >> }

DefaultModes == [enablePrefix |-> TRUE, enableSuffix |-> TRUE, enableSubstring |-> TRUE]

\* A note holding a Base block that the plugin has not touched yet
PlainDoc == <<"x", NL>> \o FENCE_START \o <<NL, "x">> \o FENCE_CLOSE \o <<NL>>

\* A note whose Base block holds a managed region with a saved state
SavedDoc ==
  FENCE_START \o <<NL>>
  \o Replacement(buildFiltersFromInput(<<"b">>, <<>>, 1, DefaultModes))
  \o FENCE_CLOSE \o <<NL>>

InitDocs == {PlainDoc, SavedDoc}

(***************************************************************************)
(* State                                                                   *)
(***************************************************************************)
VARIABLES
  doc,         \* the note's text in the vault
  vaultTags,   \* the raw tags the metadata cache reports
  settings,    \* this.settings
  cachedTags,  \* this.cachedTags
  refresh,     \* the timeouts of this.refreshTags (debounce)
  stateCache,  \* this.stateCache, the entry of the note's path
  bound,       \* anchor._baseInstantFilterBound
  allTags,     \* the post-processor's allTags, captured at render
  input,       \* the input element: value and selectionStart
  inputStore,  \* this.inputStore, the entry of the block's key
  composing,   \* the block's composing flag
  db,          \* the timeouts of the block's debounced (debounceDynamic)
  raf,         \* requestAnimationFrame callbacks queued by compositionend
  restore,     \* the async restore started at render
  cycles,      \* the write cycles in flight, oldest first
  events,      \* environment events so far
  hist,        \* history: what the claims speak of
  loc          \* the function harnesses: the inputs drawn and what was applied to them

mvars == <<doc, vaultTags, settings, cachedTags, refresh, stateCache, bound, allTags,
           input, inputStore, composing, db, raf, restore, cycles, events, hist>>

vars == <<doc, vaultTags, settings, cachedTags, refresh, stateCache, bound, allTags,
          input, inputStore, composing, db, raf, restore, cycles, events, hist, loc>>

NoEntry == [value |-> <<>>, caret |-> -1]

\* A debounce closure: live is the remaining delay of the timeout that id
\* names (-1: none pending), stray the remaining delays of pending timeouts
\* that no id names any more
NoTimers == [live |-> -1, stray |-> <<>>]

NoFail ==
  [pc |-> "none", regionAtStart |-> <<>>, regionAfter |-> <<>>, docBefore |-> <<>>,
   docAfter |-> <<>>, storeBefore |-> NoEntry, storeAfter |-> NoEntry,
   inputAfter |-> NoEntry, typedAfter |-> NoEntry]

NoHist ==
  [typed |-> NoEntry,      \* input and caret at the last edit event
   owed |-> FALSE,         \* an edit arrived during a flight and no write carries it yet
   fired |-> 0,            \* cycles started since the last call of debounced
   src |-> "none",         \* what made the last call of debounced
   delay |-> 0,            \* the delay setting at that call
   waited |-> 0,           \* ticks since that call
   external |-> FALSE,     \* the note was edited from outside the plugin
   rejected |-> 0,         \* document writes rejected
   escaped |-> 0,          \* rejections that left the write cycle uncaught
   notices |-> 0,          \* notifications shown
   fail |-> NoFail]        \* the last rejection and the state around it

NoLoc == [op |-> "none", text |-> <<>>, info |-> NoInfo, body |-> <<>>, out |-> <<>>]

(***************************************************************************)
(* debounce and debounceDynamic                                            *)
(***************************************************************************)
RECURSIVE InsertSorted(_, _)
InsertSorted(seq, x) ==
  IF Len(seq) = 0 THEN <<x>>
  ELSE IF x <= seq[1] THEN <<x>> \o seq
  ELSE <<seq[1]>> \o InsertSorted(Tail(seq), x)

\* Mutant: no delay at all
DelayMs_Zero(ms) == 0

\* Math.max(0, Number(getMs()) || 0)
DelayMs(ms) == IF ms > 0 THEN ms ELSE 0

\* A call of the debounced function: clearTimeout(id), then id = setTimeout(fn, ms)
debounceCall(t, ms) == [t EXCEPT !.live = ms]

\* The timeouts of a closure that are due
DueTimers(t) ==
  (IF t.live = 0 THEN {0} ELSE {}) \cup {i \in 1..Len(t.stray) : t.stray[i] = 0}

\* The closure's timeouts after timeout k has run (0: the one id names)
AfterFire(t, k) ==
  IF k = 0 THEN [t EXCEPT !.live = -1]
  ELSE [t EXCEPT !.stray = SubSeq(t.stray, 1, k - 1) \o SubSeq(t.stray, k + 1, Len(t.stray))]

Pending(t) == t.live >= 0 \/ Len(t.stray) > 0

NoneDue(t) == DueTimers(t) = {}

Elapse(t) ==
  [t EXCEPT !.live = IF t.live > 0 THEN t.live - 1 ELSE t.live,
            !.stray = [i \in 1..Len(t.stray) |-> t.stray[i] - 1]]

\* configureRefreshTags: a new closure; the old one's pending timeout stays
configureRefreshTags(t, ms) ==
  [live |-> -1,
   stray |-> IF t.live >= 0 THEN InsertSorted(t.stray, t.live) ELSE t.stray,
   ms |-> DelayMs(ms)]

\* this.refreshTags()
refreshTags(t) == debounceCall(t, t.ms)

(***************************************************************************)
(* Suggest                                                                 *)
(***************************************************************************)
SuggestMatchLimit == 100

SuggestCap == 12

\* Mutant: every tag of the tier is pushed, seen or not
PushAllCap(merged, tier, cap) == Slice(merged \o tier, 0, cap)

RECURSIVE PushUnseenCap(_, _, _)
\* the same loop, left at once merged holds cap entries
PushUnseenCap(merged, tier, cap) ==
  IF Len(tier) = 0 \/ Len(merged) >= cap THEN merged
  ELSE PushUnseenCap(IF Has(merged, tier[1]) THEN merged ELSE Append(merged, tier[1]),
                     Tail(tier), cap)

\* getSuggestions: the three loops over pref, suff and subs
MergedCapped(pref, suff, subs, cap) ==
  PushUnseenCap(PushUnseenCap(PushUnseenCap(<<>>, pref, cap), suff, cap), subs, cap)

\* left.lastIndexOf(" ") + 1
TokenStart(value, caret) ==
  LET left == Slice(value, 0, caret)
      sp == {i \in 1..Len(left) : left[i] = " "}
  IN  IF sp = {} THEN 0 ELSE CHOOSE i \in sp : \A j \in sp : j <= i

getSuggestions(value, caret, tags, modes) ==
  LET token == Slice(value, TokenStart(value, caret), caret)
      base == StripHash(token)
      pref == IF modes.enablePrefix THEN prefixMatch(tags, base, SuggestMatchLimit) ELSE <<>>
      suff == IF modes.enableSuffix THEN suffixMatch(tags, base, SuggestMatchLimit) ELSE <<>>
      subs == IF modes.enableSubstring THEN substringMatch(tags, base, SuggestMatchLimit) ELSE <<>>
      merged == MergedCapped(pref, suff, subs, SuggestCap)
  IN  IF Len(token) = 0 THEN <<>> ELSE [i \in 1..Len(merged) |-> <<"#">> \o merged[i]]

\* selectSuggestion: the value and caret handed to onPick
selectSuggestion(value, caret, v) ==
  LET right == SliceFrom(value, caret)
      ws == {i \in 1..Len(right) : IsSpace(right[i])}
      end == IF ws = {} THEN Len(value) ELSE caret + Min(ws) - 1
      before == Slice(value, 0, TokenStart(value, caret))
      after == SliceFrom(value, end)
      needSpace == IF StartsWithAt(after, <<" ">>, 0) THEN <<>> ELSE <<" ">>
  IN  [value |-> before \o v \o needSpace \o after,
       caret |-> Len(before \o v \o needSpace)]

\* Mutant: the entry keeps the caret and loses the text
StoreOf_NoText(value, caret) == [value |-> <<>>, caret |-> caret]

\* this.inputStore.set(key, { value, caret }): the entry written
StoreOf(value, caret) == [value |-> value, caret |-> caret]

(***************************************************************************)
(* Initial state: the plugin is loaded, nothing is rendered yet            *)
(***************************************************************************)
MachineInit ==
  /\ doc \in InitDocs
  /\ vaultTags = InitTags
  /\ settings \in {DefaultModes @@ [refreshDelayMs |-> d] : d \in LoadedDelays}
  /\ cachedTags = collectAllTags(vaultTags)
  /\ refresh = [live |-> -1, stray |-> <<>>, ms |-> DelayMs(settings.refreshDelayMs)]
  /\ stateCache = [status |-> "none", st |-> NoState]
  /\ bound = FALSE
  /\ allTags = <<>>
  /\ input = [value |-> <<>>, caret |-> 0]
  /\ inputStore = NoEntry
  /\ composing = FALSE
  /\ db = NoTimers
  /\ raf = 0
  /\ restore = "none"
  /\ cycles = <<>>
  /\ events = 0
  /\ hist = NoHist

Init == MachineInit /\ loc = NoLoc

(***************************************************************************)
(* Vault events                                                            *)
(***************************************************************************)
\* The handler of the vault's modify, rename and delete events for the note
OnModify ==
  /\ refresh' = refreshTags(refresh)
  /\ stateCache' = [status |-> "none", st |-> NoState]

\* text without the token at 0-based position i
Without(text, i) == Slice(text, 0, i) \o SliceFrom(text, i + 1)

\* What an edit made outside the plugin may leave, and where it was made: a
\* character put in front, the first fence open broken, the first begin
\* marker removed
ExternalEdits(text) ==
  {[text |-> <<"x">> \o text, at |-> 0]}
  \cup (IF IndexOf(text, FENCE_START, 0) >= 0
        THEN {[text |-> Without(text, IndexOf(text, FENCE_START, 0) + 1),
               at |-> IndexOf(text, FENCE_START, 0) + 1]}
        ELSE {})
  \cup (IF IndexOf(text, BEGIN_MARK, 0) >= 0
        THEN {[text |-> Without(text, IndexOf(text, BEGIN_MARK, 0)),
               at |-> IndexOf(text, BEGIN_MARK, 0)]}
        ELSE {})

\* The managed region of a text as locate sees it (empty when absent)
Region(text) ==
  LET info == findBaseBlock(text)
  IN  IF info = NoInfo THEN <<>> ELSE Slice(text, info.filtersStart, info.filtersEnd)

\* Position at of text lies outside the managed region that locate finds
OutsideRegion(text, at) ==
  LET info == findBaseBlock(text)
  IN  info # NoInfo /\ (at < info.filtersStart \/ at >= info.filtersEnd)

ExternalEdit ==
  /\ events < MaxEvents
  /\ \E e \in ExternalEdits(doc) :
       /\ doc' = e.text
       /\ cycles' = [i \in 1..Len(cycles) |->
                       IF cycles[i].pc = "replaceRead"
                       THEN [cycles[i] EXCEPT !.ext =
                               IF OutsideRegion(doc, e.at)
                               THEN (IF @ = "none" THEN "outside" ELSE @)
                               ELSE "inside"]
                       ELSE cycles[i]]
  /\ OnModify
  /\ events' = events + 1
  /\ hist' = [hist EXCEPT !.external = TRUE]
  /\ UNCHANGED <<vaultTags, settings, cachedTags, bound, allTags, input, inputStore,
                 composing, db, raf, restore, loc>>

\* The metadata cache has resolved after tags changed somewhere in the vault
TagsResolved ==
  /\ events < MaxEvents
  /\ \E ts \in TagSets \ {vaultTags} : vaultTags' = ts
  /\ refresh' = refreshTags(refresh)
  /\ events' = events + 1
  /\ UNCHANGED <<doc, settings, cachedTags, stateCache, bound, allTags, input,
                 inputStore, composing, db, raf, restore, cycles, hist, loc>>

\* A timeout of refreshTags runs
RefreshFire ==
  /\ \E k \in DueTimers(refresh) : refresh' = AfterFire(refresh, k)
  /\ cachedTags' = collectAllTags(vaultTags)
  /\ UNCHANGED <<doc, vaultTags, settings, stateCache, bound, allTags, input,
                 inputStore, composing, db, raf, restore, cycles, events, hist, loc>>

\* The slider of the setting tab
SetDelay ==
  /\ events < MaxEvents
  /\ \E v \in SliderChoices \ {settings.refreshDelayMs} :
       /\ settings' = [settings EXCEPT !.refreshDelayMs = v]
       /\ refresh' = configureRefreshTags(refresh, v)
  /\ events' = events + 1
  /\ UNCHANGED <<doc, vaultTags, cachedTags, stateCache, bound, allTags, input,
                 inputStore, composing, db, raf, restore, cycles, hist, loc>>

\* The clock advances by one unit; a due timeout runs first
Tick ==
  /\ Pending(db) \/ Pending(refresh)
  /\ NoneDue(db) /\ NoneDue(refresh)
  /\ db' = Elapse(db)
  /\ refresh' = Elapse(refresh)
  /\ hist' = [hist EXCEPT !.waited = IF db.live > 0 THEN @ + 1 ELSE @]
  /\ UNCHANGED <<doc, vaultTags, settings, cachedTags, stateCache, bound, allTags,
                 input, inputStore, composing, raf, restore, cycles, events, loc>>

(***************************************************************************)
(* The markdown post-processor: the widget of one anchor                   *)
(***************************************************************************)
\* Mutant: the first argument, whatever the second
MinOf_First(a, b) == a

MinOf(a, b) == IF a <= b THEN a ELSE b

\* The input element after the restore from the store entry prev
WidgetFromStore(prev) ==
  [value |-> prev.value, caret |-> MinOf(prev.caret, Len(prev.value))]

\* The input element after the restore from the state st parsed from the note
WidgetFromState(st) ==
  [value |-> st.input, caret |-> MinOf(st.caret, Len(st.input))]

\* The state read from the note is put into the input and the store
ApplyRestored(st) ==
  IF st # NoState
  THEN /\ input' = WidgetFromState(st)
       /\ inputStore' = StoreOf(st.input, st.caret)
  ELSE UNCHANGED <<input, inputStore>>

Render ==
  /\ ~bound
  /\ IndexOf(doc, FENCE_START, 0) >= 0
  /\ bound' = TRUE
  /\ allTags' = cachedTags
  /\ IF inputStore # NoEntry
     THEN /\ input' = WidgetFromStore(inputStore)
          /\ UNCHANGED <<inputStore, stateCache, restore>>
     ELSE /\ restore' = "waiting"
          /\ stateCache' = IF stateCache.status = "none"
                           THEN [status |-> "pending", st |-> NoState]
                           ELSE stateCache
          /\ UNCHANGED <<input, inputStore>>
  /\ UNCHANGED <<doc, vaultTags, settings, cachedTags, refresh, composing, db, raf,
                 cycles, events, hist, loc>>

\* The promise the restore awaits settles: the read of the note is parsed,
\* or the parsed state was cached
RestoreDone ==
  /\ restore = "waiting"
  /\ LET st == IF stateCache.status = "resolved" THEN stateCache.st
               ELSE extractSavedState(doc)
     IN  /\ stateCache' = IF stateCache.status = "pending"
                          THEN [status |-> "resolved", st |-> st]
                          ELSE stateCache
         /\ ApplyRestored(st)
  /\ restore' = "done"
  /\ UNCHANGED <<doc, vaultTags, settings, cachedTags, refresh, bound, allTags,
                 composing, db, raf, cycles, events, hist, loc>>

(***************************************************************************)
(* The widget's listeners                                                  *)
(***************************************************************************)
\* debounced(): the countdown restarts with the setting's current value
Debounced(src) ==
  /\ db' = debounceCall(db, DelayMs(settings.refreshDelayMs))
  /\ hist' = [hist EXCEPT !.fired = 0, !.src = src, !.waited = 0,
                          !.delay = settings.refreshDelayMs,
                          !.typed = IF src = "raf" THEN @ ELSE input',
                          !.owed = IF src = "raf" THEN @ ELSE (@ \/ Len(cycles) > 0)]

\* The input listener; isComposing of the event is the composing flag
InputEvent ==
  /\ bound
  /\ events < MaxEvents
  /\ \E e \in EditInputs :
       /\ input' = e
       /\ inputStore' = StoreOf(e.value, e.caret)
  /\ IF composing
     THEN /\ hist' = [hist EXCEPT !.typed = input', !.owed = @ \/ Len(cycles) > 0]
          /\ UNCHANGED db
     ELSE Debounced("input")
  /\ events' = events + 1
  /\ UNCHANGED <<doc, vaultTags, settings, cachedTags, refresh, stateCache, bound,
                 allTags, composing, raf, restore, cycles, loc>>

\* The caret moves without the value changing: no input event
CaretMove ==
  /\ bound
  /\ events < MaxEvents
  /\ \E c \in (0..Len(input.value)) \ {input.caret} : input' = [input EXCEPT !.caret = c]
  /\ events' = events + 1
  /\ UNCHANGED <<doc, vaultTags, settings, cachedTags, refresh, stateCache, bound,
                 allTags, inputStore, composing, db, raf, restore, cycles, hist, loc>>

CompositionStart ==
  /\ bound
  /\ events < MaxEvents
  /\ ~composing
  /\ composing' = TRUE
  /\ events' = events + 1
  /\ UNCHANGED <<doc, vaultTags, settings, cachedTags, refresh, stateCache, bound,
                 allTags, input, inputStore, db, raf, restore, cycles, hist, loc>>

CompositionEnd ==
  /\ composing
  /\ composing' = FALSE
  /\ raf' = raf + 1
  /\ UNCHANGED <<doc, vaultTags, settings, cachedTags, refresh, stateCache, bound,
                 allTags, input, inputStore, db, restore, cycles, events, hist, loc>>

\* The animation frame callback queued by compositionend
RafFire ==
  /\ raf > 0
  /\ raf' = raf - 1
  /\ Debounced("raf")
  /\ UNCHANGED <<doc, vaultTags, settings, cachedTags, refresh, stateCache, bound,
                 allTags, input, inputStore, composing, restore, cycles, events, loc>>

\* A suggestion is picked: selectSuggestion, then the onPick of the widget
Pick ==
  /\ bound
  /\ events < MaxEvents
  /\ LET sugg == getSuggestions(input.value, input.caret, allTags, settings)
     IN  \E i \in 1..Len(sugg) :
           LET p == selectSuggestion(input.value, input.caret, sugg[i])
           IN  /\ input' = [value |-> p.value, caret |-> p.caret]
               /\ inputStore' = StoreOf(p.value, p.caret)
  /\ Debounced("pick")
  /\ events' = events + 1
  /\ UNCHANGED <<doc, vaultTags, settings, cachedTags, refresh, stateCache, bound,
                 allTags, composing, raf, restore, cycles, loc>>

(***************************************************************************)
(* The write cycle: the async function handed to debounceDynamic.  Control *)
(* leaves it only at the awaited reads and writes of the vault.            *)
(***************************************************************************)
\* The write cycle has no try/catch around its awaits, and nothing in the
\* plugin constructs a Notice
WriteCycleCatches == FALSE

NoticeOnFailure == FALSE

NewCycle ==
  [pc |-> "ensureRead", info |-> NoInfo, val |-> <<>>, caret |-> 0, filters |-> <<>>,
   pending |-> <<>>, read |-> <<>>, latest |-> NoInfo, ext |-> "none",
   usedIndex |-> TRUE, typed |-> NoEntry,
   src |-> hist.src, delay |-> hist.delay, waited |-> hist.waited,
   regionAtStart |-> Region(doc)]

\* A timeout of debounced runs: the cycle starts and awaits the read of
\* findOrInsertBaseBlock
DebounceFire ==
  /\ \E k \in DueTimers(db) : db' = AfterFire(db, k)
  /\ cycles' = Append(cycles, NewCycle)
  /\ hist' = [hist EXCEPT !.fired = @ + 1]
  /\ UNCHANGED <<doc, vaultTags, settings, cachedTags, refresh, stateCache, bound,
                 allTags, input, inputStore, composing, raf, restore, events, loc>>

Drop(seq, i) == SubSeq(seq, 1, i - 1) \o SubSeq(seq, i + 1, Len(seq))

\* The cycle from the return of findOrInsertBaseBlock to the read that
\* replaceFiltersInBaseBlock awaits
ReadInput(c, info) ==
  [c EXCEPT !.pc = "replaceRead", !.info = info,
            !.val = input.value, !.caret = input.caret,
            !.filters = buildFiltersFromInput(input.value, allTags, input.caret, settings),
            !.usedIndex = (allTags = cachedTags), !.typed = hist.typed]

\* The read of findOrInsertBaseBlock resolves
EnsureRead ==
  /\ \E i \in 1..Len(cycles) :
       /\ cycles[i].pc = "ensureRead"
       /\ LET info == findBaseBlock(doc)
          IN  IF info # NoInfo
              THEN /\ cycles' = [cycles EXCEPT ![i] = ReadInput(@, info)]
                   /\ inputStore' = StoreOf(input.value, input.caret)
              ELSE /\ cycles' = [cycles EXCEPT ![i].pc = "ensureWrite",
                                               ![i].pending = InsertedText(doc)]
                   /\ UNCHANGED inputStore
  /\ UNCHANGED <<doc, vaultTags, settings, cachedTags, refresh, stateCache, bound,
                 allTags, input, composing, db, raf, restore, events, hist, loc>>

\* The write of the template settles: the block is looked for in the text
\* written, and the cycle ends when it is not found there
EnsureWrite ==
  /\ \E i \in 1..Len(cycles) :
       /\ cycles[i].pc = "ensureWrite"
       /\ doc' = cycles[i].pending
       /\ LET info == findBaseBlock(cycles[i].pending)
          IN  IF info # NoInfo
              THEN /\ cycles' = [cycles EXCEPT ![i] = ReadInput(@, info)]
                   /\ inputStore' = StoreOf(input.value, input.caret)
              ELSE /\ cycles' = Drop(cycles, i)
                   /\ UNCHANGED inputStore
  /\ OnModify
  /\ UNCHANGED <<vaultTags, settings, cachedTags, bound, allTags, input, composing,
                 db, raf, restore, events, hist, loc>>

\* The read of replaceFiltersInBaseBlock resolves and the write is issued
ReplaceRead ==
  /\ \E i \in 1..Len(cycles) :
       /\ cycles[i].pc = "replaceRead"
       /\ cycles' = [cycles EXCEPT
                       ![i].pc = "replaceWrite",
                       ![i].read = doc,
                       ![i].latest = findBaseBlock(doc),
                       ![i].pending = ReplacedText(doc, cycles[i].info, cycles[i].filters)]
       /\ hist' = [hist EXCEPT !.owed = @ /\ cycles[i].val # hist.typed.value]
  /\ UNCHANGED <<doc, vaultTags, settings, cachedTags, refresh, stateCache, bound,
                 allTags, input, inputStore, composing, db, raf, restore, events, loc>>

\* The write of replaceFiltersInBaseBlock settles
ReplaceWrite ==
  /\ \E i \in 1..Len(cycles) :
       /\ cycles[i].pc = "replaceWrite"
       /\ doc' = cycles[i].pending
       /\ cycles' = Drop(cycles, i)
  /\ OnModify
  /\ UNCHANGED <<vaultTags, settings, cachedTags, bound, allTags, input, inputStore,
                 composing, db, raf, restore, events, hist, loc>>

\* The vault rejects a write the cycle awaits: the cycle ends there
WriteRejected ==
  /\ events < MaxEvents
  /\ UNCHANGED <<doc, vaultTags, settings, cachedTags, refresh, stateCache, bound,
                 allTags, input, inputStore, composing, db, raf, restore, loc>>
  /\ \E i \in 1..Len(cycles) :
       /\ cycles[i].pc \in {"ensureWrite", "replaceWrite"}
       /\ cycles' = Drop(cycles, i)
       /\ hist' = [hist EXCEPT
                     !.rejected = @ + 1,
                     !.escaped = IF WriteCycleCatches THEN @ ELSE @ + 1,
                     !.notices = IF NoticeOnFailure THEN @ + 1 ELSE @,
                     !.fail = [pc |-> cycles[i].pc,
                               regionAtStart |-> cycles[i].regionAtStart,
                               regionAfter |-> Region(doc'),
                               docBefore |-> doc, docAfter |-> doc',
                               storeBefore |-> inputStore, storeAfter |-> inputStore',
                               inputAfter |-> input', typedAfter |-> hist.typed]]
  /\ events' = events + 1

(***************************************************************************)
(* The plugin                                                              *)
(***************************************************************************)
Next ==
  \/ Render
  \/ RestoreDone
  \/ InputEvent
  \/ CaretMove
  \/ CompositionStart
  \/ CompositionEnd
  \/ RafFire
  \/ Pick
  \/ DebounceFire
  \/ EnsureRead
  \/ EnsureWrite
  \/ ReplaceRead
  \/ ReplaceWrite
  \/ WriteRejected
  \/ ExternalEdit
  \/ TagsResolved
  \/ RefreshFire
  \/ SetDelay
  \/ Tick

Spec == Init /\ [][Next]_vars

(***************************************************************************)
(* The locator applied to texts: every text of at most MaxTextLen tokens   *)
(* over the tokens of the protocol and a character of content              *)
(***************************************************************************)
MaxTextLen == 6

TextTokens == {BT3, "base", NL, BEGIN_MARK[1], END_MARK[1], "x"}

TextsOfLen(n) == [1..n -> TextTokens]

\* The region a cycle holds from its findOrInsertBaseBlock, found in a text
\* that has changed since
StaleInfos == {[start |-> 0, end |-> 6, filtersStart |-> 3, filtersEnd |-> 5]}

LocBodies == {<<"filters:">>}

LocInit ==
  /\ MachineInit
  /\ doc = PlainDoc
  /\ \E n \in 0..MaxTextLen : \E t \in TextsOfLen(n) : loc = [NoLoc EXCEPT !.text = t]

\* replaceFiltersInBaseBlock on the text read
LocReplace ==
  /\ loc.op = "none"
  /\ \E info \in StaleInfos : \E body \in LocBodies :
       loc' = [loc EXCEPT !.op = "replace", !.info = info, !.body = body,
                          !.out = ReplacedText(loc.text, info, body)]
  /\ UNCHANGED mvars

\* findOrInsertBaseBlock on the text read
LocEnsure ==
  /\ loc.op = "none"
  /\ loc' = [loc EXCEPT !.op = "ensure",
                        !.info = findOrInsertBaseBlock(loc.text).info,
                        !.out = findOrInsertBaseBlock(loc.text).text]
  /\ UNCHANGED mvars

\* findBaseBlock on the text read
LocLocate ==
  /\ loc.op = "none"
  /\ loc' = [loc EXCEPT !.op = "locate", !.info = findBaseBlock(loc.text)]
  /\ UNCHANGED mvars

\* findOrInsertBaseBlock of the next write cycle, on the text the first left
LocEnsureAgain ==
  /\ loc.op = "ensure"
  /\ loc' = [loc EXCEPT !.op = "ensureAgain",
                        !.text = loc.out,
                        !.info = findOrInsertBaseBlock(loc.out).info,
                        !.out = findOrInsertBaseBlock(loc.out).text]
  /\ UNCHANGED mvars

LocNext == LocReplace \/ LocEnsure \/ LocEnsureAgain \/ LocLocate

SpecLocator == LocInit /\ [][LocNext]_vars

(***************************************************************************)
(* C1 -- region replace changes only the managed region                    *)
(***************************************************************************)
\* C1: whenever locate finds a managed region in the text a region replace
\* reads, the text it writes is that text with the span [bodyStart, bodyEnd)
\* replaced: the part before bodyStart and the part from bodyEnd onward are
\* the same in both, and between them stands the new region.
C1_FramePreserved ==
  (loc.op = "replace" /\ findBaseBlock(loc.text) # NoInfo) =>
    LET r == findBaseBlock(loc.text)
        tail == Len(loc.text) - r.filtersEnd
    IN  /\ Len(loc.out) >= r.filtersStart + tail
        /\ Slice(loc.out, 0, r.filtersStart) = Slice(loc.text, 0, r.filtersStart)
        /\ SliceFrom(loc.out, Len(loc.out) - tail) = SliceFrom(loc.text, r.filtersEnd)
        /\ Slice(loc.out, r.filtersStart, Len(loc.out) - tail) = Replacement(loc.body)

\* A replace on a text with content before and after the region, located
\* elsewhere than the stale offsets say
C1_Witness ==
  /\ loc.op = "replace"
  /\ findBaseBlock(loc.text) # NoInfo
  /\ findBaseBlock(loc.text).filtersStart # loc.info.filtersStart
  /\ findBaseBlock(loc.text).filtersStart > 0
  /\ findBaseBlock(loc.text).filtersEnd < Len(loc.text)
  /\ loc.out # loc.text

(***************************************************************************)
(* C2 -- composition and the write cycle                                   *)
(***************************************************************************)
\* C2: while a composition is open no write cycle executes: no cycle starts
\* and none is in flight while the composing flag is set, whatever edits came
\* before or during the composition.
C2_NoCycleWhileComposing == composing => Len(cycles) = 0

(***************************************************************************)
(* C3 -- a burst of edits                                                  *)
(***************************************************************************)
\* C3: edits that follow each other within the delay make one write cycle:
\* one timeout is pending at most, one cycle starts per call of debounced at
\* most and none while the countdown runs, and the cycle writes the input
\* that was in the widget at the last edit event.
C3_BurstOneCycleLatestInput ==
  /\ Len(db.stray) = 0
  /\ hist.fired <= 1
  /\ (db.live >= 0 => hist.fired = 0)
  /\ \A i \in 1..Len(cycles) :
       (cycles[i].pc \in {"replaceRead", "replaceWrite"} /\ cycles[i].typed # NoEntry)
         => cycles[i].val = cycles[i].typed.value

(***************************************************************************)
(* C4 -- cycles of one block                                               *)
(***************************************************************************)
\* C4: the write cycles of one block never overlap: at most one is in flight.
C4_NoOverlap == Len(cycles) <= 1

(***************************************************************************)
(* C5 -- an edit during a flight                                           *)
(***************************************************************************)
\* Nothing is pending: no timeout of debounced, no animation frame, no cycle
\* in flight, no composition
Quiescent ==
  /\ ~Pending(db)
  /\ raf = 0
  /\ Len(cycles) = 0
  /\ ~composing

\* C5: an edit that arrives while a cycle is in flight is not dropped: once
\* nothing is pending any more, a cycle has issued a write that carries the
\* input of the last edit event.
C5_EditInFlightWritten == Quiescent => ~hist.owed

C7_RejectionCaughtAndReported ==
  hist.rejected > 0 => (hist.escaped = 0 /\ hist.notices = hist.rejected)

(***************************************************************************)
(* C8 -- what a rejected write leaves behind                               *)
(***************************************************************************)
\* C8 as stated: after a rejected write the managed region is what it was
\* when the cycle started, and the store holds the input and caret of the
\* last edit event.
C8_RegionAsBeforeCycle ==
  hist.fail.pc # "none" =>
    /\ hist.fail.regionAfter = hist.fail.regionAtStart
    /\ (hist.fail.typedAfter # NoEntry => hist.fail.storeAfter = hist.fail.typedAfter)

\* C8: the rejection itself changes neither the document nor the store, and
\* when the rejected write is the region replace the store holds the text the
\* widget shows.
C8_RejectionChangesNothing ==
  hist.fail.pc # "none" =>
    /\ hist.fail.docAfter = hist.fail.docBefore
    /\ hist.fail.storeAfter = hist.fail.storeBefore
    /\ (hist.fail.pc = "replaceWrite" =>
          /\ hist.fail.storeAfter # NoEntry
          /\ hist.fail.storeAfter.value = hist.fail.inputAfter.value)

\* The region replace of a cycle that had appended the template is rejected
\* while the widget shows a text
C8_Witness ==
  /\ hist.fail.pc = "replaceWrite"
  /\ hist.fail.regionAfter # hist.fail.regionAtStart
  /\ hist.fail.inputAfter.value # <<>>
  /\ hist.fail.storeAfter.value = hist.fail.inputAfter.value

(***************************************************************************)
(* C9 -- an external change before the replace reads                       *)
(***************************************************************************)
\* The text a replace writes is the text it read with the region that locate
\* finds there replaced
FreshSplice(c) ==
  LET r == findBaseBlock(c.read)
  IN  c.pending = Slice(c.read, 0, r.filtersStart) \o Replacement(c.filters)
                    \o SliceFrom(c.read, r.filtersEnd)

\* C9 as stated: after an external change outside the region, made before the
\* replace reads, the offsets are those of the text read: locate finds the
\* region there and the write replaces that span.
C9_OffsetsRecomputed ==
  \A i \in 1..Len(cycles) :
    (cycles[i].pc = "replaceWrite" /\ cycles[i].ext = "outside")
      => (findBaseBlock(cycles[i].read) # NoInfo /\ FreshSplice(cycles[i]))

\* C9: after an external change outside the region, made before the replace
\* reads, and when locate still finds a region in the text read, the write
\* replaces the span found in the text read and keeps the rest of that text.
C9_OffsetsRecomputedWhenLocated ==
  \A i \in 1..Len(cycles) :
    (cycles[i].pc = "replaceWrite" /\ cycles[i].ext = "outside"
       /\ findBaseBlock(cycles[i].read) # NoInfo)
      => FreshSplice(cycles[i])

\* A replace about to write after an external change that moved the region
C9_Witness ==
  \E i \in 1..Len(cycles) :
    /\ cycles[i].pc = "replaceWrite"
    /\ cycles[i].ext = "outside"
    /\ findBaseBlock(cycles[i].read) # NoInfo
    /\ findBaseBlock(cycles[i].read) # cycles[i].info
    /\ FreshSplice(cycles[i])

(***************************************************************************)
(* C10 -- the tag set of a cycle                                           *)
(***************************************************************************)
\* C10: the tag set a cycle builds its clauses from is the index of the most
\* recent rebuild.
C10_UsesLatestIndex ==
  \A i \in 1..Len(cycles) :
    cycles[i].pc \in {"replaceRead", "replaceWrite"} => cycles[i].usedIndex

(***************************************************************************)
(* The persisted state: every input of at most MaxInputLen characters and  *)
(* every caret within it is written as a managed region and parsed back    *)
(***************************************************************************)
MaxInputLen == 2

StateChars == {NL, " ", "#", "%", "\"", "a"}

\* A note whose Base block holds the managed region with that body
DocWithBody(body) == FENCE_START \o <<NL>> \o Replacement(body) \o FENCE_CLOSE \o <<NL>>

StateInit ==
  /\ MachineInit
  /\ doc = PlainDoc
  /\ \E n \in 0..MaxInputLen : \E s \in [1..n -> StateChars] : \E c \in 0..n :
       loc = [op |-> "none", s |-> s, c |-> c, body |-> <<>>, st |-> NoState]

\* The write cycle builds the region body from the input and the caret
StateSerialize ==
  /\ loc.op = "none"
  /\ loc' = [loc EXCEPT !.op = "serialized",
                        !.body = buildFiltersFromInput(loc.s, cachedTags, loc.c, settings)]
  /\ UNCHANGED mvars

\* The restore parses the note that holds that body
StateParse ==
  /\ loc.op = "serialized"
  /\ loc' = [loc EXCEPT !.op = "parsed", !.st = extractSavedState(DocWithBody(loc.body))]
  /\ UNCHANGED mvars

StateNext == StateSerialize \/ StateParse

SpecState == StateInit /\ [][StateNext]_vars

(***************************************************************************)
(* C11 -- round trip of the persisted state                                *)
(***************************************************************************)
\* C11: for every input text s and every caret c in [0, len(s)], parsing the
\* managed region a write cycle generates for (s, c) gives back exactly the
\* input s and the caret c, the empty input included.
C11_RoundTrip ==
  loc.op = "parsed" => loc.st = [input |-> loc.s, caret |-> loc.c]

(***************************************************************************)
(* C12 -- locate after ensureRegion                                        *)
(***************************************************************************)
\* C12: for any document text, the block findOrInsertBaseBlock returns is a
\* located region, and it is what findBaseBlock finds in the text that
\* findOrInsertBaseBlock leaves in the note.
C12_LocateLeftInverse ==
  loc.op = "ensure" => (loc.info # NoInfo /\ loc.info = findBaseBlock(loc.out))

(***************************************************************************)
(* C16 -- the offsets locate reports                                       *)
(***************************************************************************)
\* C16: whenever findBaseBlock returns a region, its offsets are in order and
\* within the fence: start <= filtersStart <= filtersEnd <= end.
C16_OffsetsWithinFence ==
  (loc.op = "locate" /\ loc.info # NoInfo) =>
    /\ loc.info.start <= loc.info.filtersStart
    /\ loc.info.filtersStart <= loc.info.filtersEnd
    /\ loc.info.filtersEnd <= loc.info.end

(***************************************************************************)
(* The merge of the suggestion tiers, applied to tiers drawn from a few    *)
(* short lists and a list longer than the cap                              *)
(***************************************************************************)
\* SuggestCap + 1 tags, none of them in the short tiers
ManyTags == [i \in 1..(SuggestCap + 1) |-> <<"t">> \o ToDigits(i)]

TierChoices ==
  { <<>>,
    << <<"a">> >>,
    << <<"a">>, <<"b">> >>,
    << <<"b">>, <<"c">> >>,
    << <<"c">>, <<"d">>, <<"a">> >>,
    ManyTags }

MergeInit ==
  /\ MachineInit
  /\ doc = PlainDoc
  /\ \E pref \in TierChoices : \E suff \in TierChoices : \E subs \in TierChoices :
       loc = [op |-> "none", pref |-> pref, suff |-> suff, subs |-> subs, out |-> <<>>]

\* getSuggestions merges the tiers
MergeTiers ==
  /\ loc.op = "none"
  /\ loc' = [loc EXCEPT !.op = "merge",
                        !.out = MergedCapped(loc.pref, loc.suff, loc.subs, SuggestCap)]
  /\ UNCHANGED mvars

SpecMerge == MergeInit /\ [][MergeTiers]_vars

(***************************************************************************)
(* C13 -- the merged match list                                            *)
(***************************************************************************)
\* The positions of seq that hold the first occurrence of their element
FirstOccurrences(seq) == {i \in 1..Len(seq) : \A j \in 1..(i - 1) : seq[j] # seq[i]}

\* The k-th smallest member of a set of positions
KthOf(P, k) == CHOOSE i \in P : Cardinality({j \in P : j <= i}) = k

\* C13: the merged list is the concatenation prefix, suffix, substring with
\* every tag kept at its first occurrence only, cut at the cap of 12; for
\* prefix = [a,b], suffix = [b,c], substring = [c,d,a] it is [a,b,c,d].
C13_MergeOrdered ==
  loc.op = "merge" =>
    LET cat == loc.pref \o loc.suff \o loc.subs
        keep == FirstOccurrences(cat)
        n == IF Cardinality(keep) < SuggestCap THEN Cardinality(keep) ELSE SuggestCap
    IN  /\ Len(loc.out) = n
        /\ \A k \in 1..n : loc.out[k] = cat[KthOf(keep, k)]
        /\ (/\ loc.pref = << <<"a">>, <<"b">> >>
            /\ loc.suff = << <<"b">>, <<"c">> >>
            /\ loc.subs = << <<"c">>, <<"d">>, <<"a">> >>)
             => loc.out = << <<"a">>, <<"b">>, <<"c">>, <<"d">> >>

\* A merge of tiers that share a tag and hold more tags than the cap
C13_Witness ==
  /\ loc.op = "merge"
  /\ Len(loc.out) = SuggestCap
  /\ Cardinality(FirstOccurrences(loc.pref \o loc.suff \o loc.subs)) > SuggestCap
  /\ \E i \in 1..Len(loc.suff) : Has(loc.pref, loc.suff[i])
  /\ Len(loc.pref) > 0 /\ Len(loc.subs) > 0

(***************************************************************************)
(* The prefix matcher, applied to every sorted tag list over a few tags,   *)
(* a few queries and every limit up to MaxLimit                            *)
(***************************************************************************)
MaxLimit == 2

TagUniverse == { <<"a">>, <<"a", "b">>, <<"A", "b">>, <<"b">>, <<"b", "a">> }

Queries ==
  { <<>>, <<"#">>, <<"a">>, <<"#", "a">>, <<"A">>, <<"#", "A", "B">>, <<"b">>,
    <<"#", "#", "a">> }

MatchInit ==
  /\ MachineInit
  /\ doc = PlainDoc
  /\ \E S \in SUBSET TagUniverse : \E q \in Queries : \E limit \in 0..MaxLimit :
       loc = [op |-> "none", all |-> SortedSeq(S), q |-> q, limit |-> limit, out |-> <<>>]

\* prefixMatch(all, q, limit)
MatchPrefix ==
  /\ loc.op = "none"
  /\ loc' = [loc EXCEPT !.op = "prefix", !.out = prefixMatch(loc.all, loc.q, loc.limit)]
  /\ UNCHANGED mvars

SpecMatch == MatchInit /\ [][MatchPrefix]_vars

(***************************************************************************)
(* C14 -- prefixMatch                                                      *)
(***************************************************************************)
\* The query as the matcher compares it: one leading # off, in lower case
Needle(q) ==
  LET bare == IF Len(q) > 0 /\ q[1] = "#" THEN SubSeq(q, 2, Len(q)) ELSE q
  IN  [i \in 1..Len(bare) |-> LowerChar(bare[i])]

\* The positions of all whose tag, in lower case, starts with the needle
PrefixHits(all, q) ==
  {i \in 1..Len(all) :
     /\ Len(Needle(q)) > 0
     /\ Len(all[i]) >= Len(Needle(q))
     /\ \A k \in 1..Len(Needle(q)) : LowerChar(all[i][k]) = Needle(q)[k]}

\* C14: prefixMatch returns the first tags of the sorted list, in the list's
\* order, whose lower-case form starts with the lower-case query less one
\* leading #, at most limit of them; an empty query, or #, gives the empty list.
C14_PrefixMatch ==
  loc.op = "prefix" =>
    LET hits == PrefixHits(loc.all, loc.q)
        n == IF Cardinality(hits) < loc.limit THEN Cardinality(hits) ELSE loc.limit
    IN  /\ Len(loc.out) = n
        /\ \A k \in 1..n : loc.out[k] = loc.all[KthOf(hits, k)]
        /\ (loc.q \in {<<>>, <<"#">>} => loc.out = <<>>)

\* More tags match than the limit lets through, one of them by case folding
C14_Witness ==
  /\ loc.op = "prefix"
  /\ loc.limit > 0
  /\ Len(loc.out) = loc.limit
  /\ Cardinality(PrefixHits(loc.all, loc.q)) > loc.limit
  /\ loc.q[1] = "#"
  /\ loc.out[1] = <<"A", "b">>

(***************************************************************************)
(* The restore of a block's state: a note holding an input of at most      *)
(* MaxInputLen characters and a caret up to MaxCaretExcess beyond its end  *)
(* is restored into a widget, and the widget is rendered again             *)
(***************************************************************************)
MaxCaretExcess == 2

RestoreChars == {" ", "#", "a"}

\* The region body with the state lines of an input and a caret, as found in
\* a note that was edited by hand or written for a longer input
PersistedBody(s, c) == Join(<< <<"filters:">>, InputLine(s), CaretLine(c) >>, <<NL>>)

RestoreInit ==
  /\ MachineInit
  /\ doc = PlainDoc
  /\ \E n \in 0..MaxInputLen : \E s \in [1..n -> RestoreChars] :
       \E c \in 0..(n + MaxCaretExcess) :
         loc = [op |-> "none", s |-> s, c |-> c, st |-> NoState,
                widget |-> [value |-> <<>>, caret |-> 0], store |-> NoEntry]

\* The async restore of a first render: the state parsed from the note is put
\* into the input element and the store
RestoreFromNote ==
  /\ loc.op = "none"
  /\ LET st == extractSavedState(DocWithBody(PersistedBody(loc.s, loc.c)))
     IN  /\ st # NoState
         /\ loc' = [loc EXCEPT !.op = "note", !.st = st,
                               !.widget = WidgetFromState(st),
                               !.store = StoreOf(st.input, st.caret)]
  /\ UNCHANGED mvars

\* A later render of the block: the input element is filled from the store
RestoreFromStore ==
  /\ loc.op = "note"
  /\ loc' = [loc EXCEPT !.op = "store", !.widget = WidgetFromStore(loc.store)]
  /\ UNCHANGED mvars

RestoreNext == RestoreFromNote \/ RestoreFromStore

SpecRestore == RestoreInit /\ [][RestoreNext]_vars

(***************************************************************************)
(* C15 -- the caret after a restore                                        *)
(***************************************************************************)
\* C15 as stated: after a restore the block's state, the store entry that
\* the restore leaves for the block included, has its caret within
\* [0, length of its text].
C15_StateCaretClamped ==
  loc.op \in {"note", "store"} =>
    /\ 0 <= loc.widget.caret /\ loc.widget.caret <= Len(loc.widget.value)
    /\ 0 <= loc.store.caret /\ loc.store.caret <= Len(loc.store.value)

\* C15: after a restore, from the store on a later render or from the state
\* in the note, the caret set in the input element lies within
\* [0, length of the restored text], also when the persisted caret is larger
\* than the persisted input is long; the store entry keeps the persisted
\* caret and is clamped when it is read.
C15_CaretClamped ==
  loc.op \in {"note", "store"} =>
    (0 <= loc.widget.caret /\ loc.widget.caret <= Len(loc.widget.value))

\* The store entry has a caret beyond the text and the widget is filled from it
C15_Witness ==
  /\ loc.op = "store"
  /\ loc.store.caret > Len(loc.store.value)
  /\ Len(loc.widget.value) > 0
  /\ loc.widget.caret = Len(loc.widget.value)

(***************************************************************************)
(* C17 -- the region is not found again at replace time                    *)
(***************************************************************************)
\* The text a replace writes is the text it read with the span of the
\* offsets of the earlier findOrInsertBaseBlock replaced
StaleSplice(c) ==
  c.pending = Slice(c.read, 0, c.info.filtersStart) \o Replacement(c.filters)
                \o SliceFrom(c.read, c.info.filtersEnd)

\* C17: when findBaseBlock finds no region in the text read at replace time
\* (latest is what it returned for that text),
\* the replace does not abort: it issues its write, and the text it writes is
\* the text read with the new region spliced in at the offsets that the
\* earlier findOrInsertBaseBlock returned.
C17_StaleFallback ==
  \A i \in 1..Len(cycles) :
    (cycles[i].pc = "replaceWrite" /\ cycles[i].latest = NoInfo)
      => (cycles[i].info # NoInfo /\ StaleSplice(cycles[i]))

\* A replace about to write a text in which the region was not found again
C17_Witness ==
  \E i \in 1..Len(cycles) :
    /\ cycles[i].pc = "replaceWrite"
    /\ cycles[i].latest = NoInfo
    /\ findBaseBlock(cycles[i].read) = NoInfo
    /\ IndexOf(cycles[i].read, BEGIN_MARK, 0) < 0
    /\ StaleSplice(cycles[i])
    /\ cycles[i].pending # cycles[i].read

(***************************************************************************)
(* The memo of the state read from a note (stateCache): restores of the    *)
(* blocks of one note and modifications of that note, in any order.  A     *)
(* promise is named by its position in the list of the promises created.   *)
(***************************************************************************)
MaxRestores == 3

MaxModifies == 2

\* The texts the note may hold: a saved state, another saved state, none
MemoTexts == {SavedDoc, DocWithBody(PersistedBody(<<"a">>, 1)), PlainDoc}

\* Mutant: every restore starts a read of its own
PromiseFor_Fresh(cache, n) == n + 1

\* let p = this.stateCache.get(sp); if (!p) { p = read...; this.stateCache.set(sp, p) }:
\* the promise the restore awaits, given the entry and the promises so far
PromiseFor(cache, n) == IF cache # 0 THEN cache ELSE n + 1

\* Mutant: the entry stays
CacheAfterDelete_Keep(cache) == cache

\* this.stateCache.delete(path): the entry of the path afterwards (0: none)
CacheAfterDelete(cache) == 0

MemoInit ==
  /\ MachineInit
  /\ doc = PlainDoc
  /\ \E t \in MemoTexts :
       loc = [op |-> "none", text |-> t, cache |-> 0, promises |-> <<>>,
              restores |-> <<>>, epoch |-> 0]

\* A block of the note is rendered with no store entry: its restore takes the
\* cached promise or starts the read and caches its promise, then awaits it
MemoRestoreStart ==
  /\ Len(loc.restores) < MaxRestores
  /\ LET n == Len(loc.promises)
         p == PromiseFor(loc.cache, n)
     IN  loc' = [loc EXCEPT
                   !.op = "start",
                   !.cache = p,
                   !.promises = IF p > n
                                THEN Append(@, [state |-> "pending", st |-> NoState,
                                                epoch |-> loc.epoch])
                                ELSE @,
                   !.restores = Append(@, [p |-> p, got |-> "waiting", st |-> NoState,
                                           epoch |-> loc.epoch,
                                           joined |-> (p <= n /\ loc.promises[p].state = "pending")])]
  /\ UNCHANGED mvars

\* The read of a promise resolves and extractSavedState parses the text
MemoReadResolve ==
  /\ \E p \in 1..Len(loc.promises) :
       /\ loc.promises[p].state = "pending"
       /\ loc' = [loc EXCEPT !.op = "resolve",
                             !.promises[p].state = "resolved",
                             !.promises[p].st = extractSavedState(loc.text)]
  /\ UNCHANGED mvars

\* A restore gets the state of the promise it awaits
MemoRestoreGet ==
  /\ \E r \in 1..Len(loc.restores) :
       /\ loc.restores[r].got = "waiting"
       /\ loc.promises[loc.restores[r].p].state = "resolved"
       /\ loc' = [loc EXCEPT !.op = "get",
                             !.restores[r].got = "done",
                             !.restores[r].st = loc.promises[loc.restores[r].p].st]
  /\ UNCHANGED mvars

\* The vault reports the note modified (renamed, deleted): the handler
\* deletes the entry of the path
MemoModify ==
  /\ loc.epoch < MaxModifies
  /\ \E t \in MemoTexts \ {loc.text} :
       loc' = [loc EXCEPT !.op = "modify", !.text = t,
                          !.cache = CacheAfterDelete(loc.cache),
                          !.epoch = @ + 1]
  /\ UNCHANGED mvars

MemoNext == MemoRestoreStart \/ MemoReadResolve \/ MemoRestoreGet \/ MemoModify

SpecMemo == MemoInit /\ [][MemoNext]_vars

C19_OneReadPerEpoch ==
  loc.op # "none" =>
    /\ \A p \in 1..Len(loc.promises) : \A q \in 1..Len(loc.promises) :
         loc.promises[p].epoch = loc.promises[q].epoch => p = q
    /\ \A r \in 1..Len(loc.restores) : \A u \in 1..Len(loc.restores) :
         loc.restores[r].epoch = loc.restores[u].epoch =>
           /\ loc.restores[r].p = loc.restores[u].p
           /\ (loc.restores[r].got = "done" /\ loc.restores[u].got = "done")
                => loc.restores[r].st = loc.restores[u].st

\* Three restores between the same two modifications, one of them started
\* while the read was pending, have all got a state
C19_Witness ==
  /\ loc.op = "get"
  /\ Len(loc.restores) >= 3
  /\ \A r \in 1..3 : loc.restores[r].got = "done" /\ loc.restores[r].epoch = loc.restores[1].epoch
  /\ \E r \in 1..3 : loc.restores[r].joined
  /\ loc.restores[1].st # NoState

(***************************************************************************)
(* C20 -- a burst of notifications and the rebuild of the tag index        *)
(***************************************************************************)
\* The timeouts pending for a rebuild of the tag index
PendingRebuilds == (IF refresh.live >= 0 THEN 1 ELSE 0) + Len(refresh.stray)

\* C20: notifications that follow each other within the delay lead to one
\* rebuild after the last of them, also when the delay setting is changed
\* in between: no more than one timeout is ever pending for the rebuild; and
\* the index is in ascending order without duplicates.
C20_OneRebuildPerBurst ==
  /\ PendingRebuilds <= 1
  /\ \A i \in 1..Len(cachedTags) : \A j \in 1..Len(cachedTags) :
       i < j => SeqLess(cachedTags[i], cachedTags[j])

(***************************************************************************)
(* extractSavedState on managed regions that were not written by a write   *)
(* cycle: every body of at most MaxLines lines drawn from RegionLines      *)
(***************************************************************************)
MaxLines == 3

\* Lines a managed region can hold: the filters key, input lines with a
\* value, with an encoded value and with no value, caret lines with digits,
\* with a non-digit and with no value, and a line of digits
RegionLines ==
  { <<"filters:">>,
    InputLine(<<"a">>), InputLine(<<"a", " ">>), InputLine(<<>>),
    CaretLine(1), <<"#", " ", "CARET:", " ", "a">>, <<"#", " ", "CARET:", " ">>,
    <<"7">> }

ParseInit ==
  /\ MachineInit
  /\ doc = PlainDoc
  /\ \E n \in 0..MaxLines : \E ls \in [1..n -> RegionLines] :
       loc = [op |-> "none", lines |-> ls, st |-> NoState]

\* The restore parses the note whose managed region holds those lines
ParseRegion ==
  /\ loc.op = "none"
  /\ loc' = [loc EXCEPT !.op = "parsed",
                        !.st = extractSavedState(DocWithBody(Join(loc.lines, <<NL>>)))]
  /\ UNCHANGED mvars

SpecParse == ParseInit /\ [][ParseRegion]_vars

(***************************************************************************)
(* C21 -- defaults of the parsed state                                     *)
(***************************************************************************)
\* The lines of the region that carry the label
Labelled(lines, label) ==
  {i \in 1..Len(lines) : Len(lines[i]) >= 3 /\ SubSeq(lines[i], 1, 3) = <<"#", " ", label>>}

\* What stands after the label on the first line that carries it
ValueOf(lines, label) ==
  LET l == lines[Min(Labelled(lines, label))] IN Trim(SubSeq(l, 4, Len(l)))

AllDigits(v) == Len(v) > 0 /\ \A i \in 1..Len(v) : IsDigit(v[i])

\* C21: parsing a managed region gives absent when it holds neither an input
\* line nor a caret line; when it holds an input line and its caret line is
\* missing or not a number, it gives the decoded input with the caret at the
\* length of that input.
C21_ParseDefaults ==
  loc.op = "parsed" =>
    /\ (Labelled(loc.lines, "INPUT:") = {} /\ Labelled(loc.lines, "CARET:") = {})
         => loc.st = NoState
    /\ (/\ Labelled(loc.lines, "INPUT:") # {}
        /\ (Labelled(loc.lines, "CARET:") = {} \/ ~AllDigits(ValueOf(loc.lines, "CARET:"))))
         => LET parsed == decodeState(ValueOf(loc.lines, "INPUT:"))
            IN  loc.st = [input |-> parsed, caret |-> Len(parsed)]

(***************************************************************************)
(* buildFiltersFromInput, applied to a few inputs, a few sorted tag        *)
(* indexes, one of them longer than the clause cap, and every choice of    *)
(* the enabled tiers                                                       *)
(***************************************************************************)
BuildInputs ==
  { <<"#", "p", "r", "o", "j">>,
    <<"a">>,
    <<"#">>,
    <<"t">>,
    <<"e", " ", "A">>,
    <<" ", "a", " ", NL, "#", "b", " ">>,
    <<"t", " ", "1">>,
    <<" ">> }

\* More tags than one clause takes, all of them matched by "t"
BuildManyTags == SortedSeq({<<"t">> \o ToDigits(i) : i \in 1..(FilterClauseCap + 1)})

BuildIndexes ==
  { <<>>,
    << <<"p", "r", "o", "j", "e", "c", "t">>,
       <<"p", "r", "o", "j", "e", "c", "t", "a">>,
       <<"u", "r", "g", "e", "n", "t", "c", "a", "r", "e">> >>,
    << <<"a", "B">>, <<"a", "b">>, <<"b", "a">> >>,
    BuildManyTags }

BuildModes ==
  [enablePrefix : BOOLEAN, enableSuffix : BOOLEAN, enableSubstring : BOOLEAN]

BuildInit ==
  /\ MachineInit
  /\ doc = PlainDoc
  /\ \E s \in BuildInputs : \E tags \in BuildIndexes : \E modes \in BuildModes :
       loc = [op |-> "none", s |-> s, tags |-> tags, modes |-> modes, body |-> <<>>]

\* The write cycle builds the filters of the input
BuildFilters ==
  /\ loc.op = "none"
  /\ loc' = [loc EXCEPT !.op = "built",
                        !.body = buildFiltersFromInput(loc.s, loc.tags, Len(loc.s), loc.modes)]
  /\ UNCHANGED mvars

SpecBuild == BuildInit /\ [][BuildFilters]_vars

(***************************************************************************)
(* C22 -- one clause per token of the input                                *)
(***************************************************************************)
\* The positions of s where a whitespace-separated token starts
TokenStarts(s) ==
  {i \in 1..Len(s) : ~IsSpace(s[i]) /\ (i = 1 \/ IsSpace(s[i - 1]))}

\* The token of s that starts at position i
TokenAt(s, i) ==
  LET stops == {j \in i..Len(s) : IsSpace(s[j])}
  IN  SubSeq(s, i, IF stops = {} THEN Len(s) ELSE Min(stops) - 1)

\* The positions of body where a clause line opens
ClauseStarts(body) ==
  {i \in 1..Len(body) : body[i] = "    - file.tags.containsAny(["}

\* The clause line of body that opens at position i
ClauseAt(body, i) ==
  LET stops == {j \in i..Len(body) : body[j] = NL}
  IN  SubSeq(body, i, IF stops = {} THEN Len(body) ELSE Min(stops) - 1)

\* The clause line holds the tag between double quotes
References(clause, tag) ==
  \E j \in 1..(Len(clause) - Len(tag) - 1) :
    SubSeq(clause, j, j + Len(tag) + 1) = <<"\"">> \o tag \o <<"\"">>

\* The tags of the index that the tier matches for the token, in index order
TierHits(tags, token, kind, enabled) ==
  LET q == ToLower(StripHash(StripHash(token)))
      hit(t) == /\ enabled
                /\ Len(q) > 0
                /\ Len(t) >= Len(q)
                /\ CASE kind = "prefix" -> SubSeq(ToLower(t), 1, Len(q)) = q
                     [] kind = "suffix" ->
                          SubSeq(ToLower(t), Len(t) - Len(q) + 1, Len(t)) = q
                     [] OTHER ->
                          \E k \in 1..(Len(t) - Len(q) + 1) :
                            SubSeq(ToLower(t), k, k + Len(q) - 1) = q
  IN  SelectSeq(tags, hit)

\* C22: for a non-empty input the generated body holds exactly one clause per
\* whitespace-separated token of the input, in the tokens' order, and each
\* clause references every tag that the enabled tiers match for its token:
\* the prefix, suffix and substring matches merged without duplicates, the
\* first 60 of them at most.  The tags project, projecta, urgentcare and the
\* input #proj give a clause that references project and projecta.
C22_ClausePerToken ==
  (loc.op = "built" /\ Len(loc.s) > 0) =>
    LET starts == TokenStarts(loc.s)
        clauses == ClauseStarts(loc.body)
    IN  /\ Cardinality(clauses) = Cardinality(starts)
        /\ \A k \in 1..Cardinality(starts) :
             LET token == TokenAt(loc.s, KthOf(starts, k))
                 clause == ClauseAt(loc.body, KthOf(clauses, k))
                 cat == TierHits(loc.tags, token, "prefix", loc.modes.enablePrefix)
                          \o TierHits(loc.tags, token, "suffix", loc.modes.enableSuffix)
                          \o TierHits(loc.tags, token, "substring", loc.modes.enableSubstring)
                 keep == FirstOccurrences(cat)
                 n == IF Cardinality(keep) < FilterClauseCap
                      THEN Cardinality(keep) ELSE FilterClauseCap
             IN  /\ \A m \in 1..n : References(clause, cat[KthOf(keep, m)])
                 /\ Cardinality({j \in 1..Len(clause) : clause[j] = ","}) <= FilterClauseCap
        /\ (/\ loc.s = <<"#", "p", "r", "o", "j">>
            /\ Len(loc.tags) = 3 /\ loc.tags[3][1] = "u"
            /\ loc.modes.enablePrefix)
             => \E i \in clauses :
                  /\ References(ClauseAt(loc.body, i), loc.tags[1])
                  /\ References(ClauseAt(loc.body, i), loc.tags[2])

\* A body built for two tokens over an index in which one of them matches
\* more tags than a clause takes
C22_Witness ==
  /\ loc.op = "built"
  /\ Cardinality(TokenStarts(loc.s)) = 2
  /\ loc.tags = BuildManyTags
  /\ loc.modes.enablePrefix /\ loc.modes.enableSubstring
  /\ Cardinality(ClauseStarts(loc.body)) = 2
  /\ \E i \in ClauseStarts(loc.body) :
       Cardinality({j \in 1..Len(ClauseAt(loc.body, i)) : ClauseAt(loc.body, i)[j] = ","})
         = FilterClauseCap

(***************************************************************************)
(* C23 -- convergence                                                      *)
(***************************************************************************)
\* The managed region of the note ends with the lines that encode the
\* BlockStore entry
StoreEncoded ==
  IndexOf(doc, InputLine(inputStore.value) \o <<NL>> \o CaretLine(inputStore.caret)
                 \o <<NL>> \o END_MARK, 0) >= 0

\* C23: when no write was rejected and the note was not edited from outside,
\* then once the block's edits have stopped and nothing is pending any more
\* (no timeout, no animation frame, no cycle in flight, no composition, no
\* restore), whatever the order in which the reads and writes completed, the
\* state encoded in the note's managed region is the input text and caret of
\* the block's BlockStore entry.
C23_Converges ==
  (/\ Quiescent
   /\ restore # "waiting"
   /\ hist.rejected = 0
   /\ ~hist.external
   /\ hist.typed # NoEntry)
    => StoreEncoded

(***************************************************************************)
(* C24 -- findOrInsertBaseBlock twice                                      *)
(***************************************************************************)
\* C24: findOrInsertBaseBlock is idempotent on the note: on the text that one
\* findOrInsertBaseBlock has left, the next one finds a region and writes
\* nothing, so the template is appended once at most.
C24_EnsureIdempotent ==
  loc.op = "ensureAgain" => (loc.info # NoInfo /\ loc.out = loc.text)

(***************************************************************************)
(* C25 -- a restore that completes after the user typed                    *)
(***************************************************************************)
\* C25: a restore that completes after an edit event of the block (the
\* BlockStore then holds an entry from that edit) leaves the input element
\* and the BlockStore entry as they are.
C25_RestoreKeepsTyped ==
  [][(restore = "waiting" /\ restore' = "done" /\ hist.typed # NoEntry)
       => (input' = input /\ inputStore' = inputStore)]_vars

====
